---- MODULE Spec2Model ----
(***************************************************************************)
(* Model of ZH-L16.py: the Buhlmann ZH-L16 compartment table, the          *)
(* gas-loading formulas and the descent step that rewrites the            *)
(* compartments.json state file.                                           *)
(*                                                                         *)
(* Numbers.  The program computes in binary floating point and rounds     *)
(* every stored pressure to 4 decimals.  Here a stored pressure is an      *)
(* integer number of 1e-4 atm (what round(x, 4) keeps), and every          *)
(* intermediate real is a fixed-point number with 12 decimals, held as a   *)
(* little-endian sequence of five base-10^4 limbs                          *)
(*     <<1e-12 part, 1e-8 part, 1e-4 part, units, 10^4 part>>              *)
(* whose first four limbs are in 0..Base-1 and whose last limb carries the *)
(* sign.  Products are truncated at 1e-12, far below the 1e-4 rounding.    *)
(***************************************************************************)
EXTENDS Integers, Sequences, FiniteSets, TLC

\* round(..., 4): the number of decimals kept in a stored pressure
NDIGITS == 4

Base == 10 ^ NDIGITS

Zero == <<0, 0, 0, 0, 0>>

One == <<0, 0, 0, 1, 0>>

RECURSIVE Carry(_, _, _)
Carry(d, i, c) ==
    IF i = Len(d)
    THEN <<d[i] + c>>
    ELSE <<(d[i] + c) % Base>> \o Carry(d, i + 1, (d[i] + c) \div Base)

\* carry propagation: limbs back into 0..Base-1, the sign in the last limb
Norm(d) == Carry(d, 1, 0)

Add(a, b) == Norm(<<a[1] + b[1], a[2] + b[2], a[3] + b[3], a[4] + b[4], a[5] + b[5]>>)

Sub(a, b) == Norm(<<a[1] - b[1], a[2] - b[2], a[3] - b[3], a[4] - b[4], a[5] - b[5]>>)

\* a * n for a small integer n
MulInt(a, n) == Norm(<<a[1] * n, a[2] * n, a[3] * n, a[4] * n, a[5] * n>>)

RECURSIVE DivStep(_, _, _, _)
DivStep(a, n, i, r) ==
    IF i = 0
    THEN <<>>
    ELSE DivStep(a, n, i - 1, (r * Base + a[i]) % n) \o <<(r * Base + a[i]) \div n>>

\* a / n for a small integer n > 0 (long division from the top limb, floor)
DivInt(a, n) == DivStep(a, n, Len(a), 0)

\* the limbs of the product of two five-limb numbers, before carrying
Conv(a, b) ==
    <<a[1] * b[1],
       a[1] * b[2] + a[2] * b[1],
       a[1] * b[3] + a[2] * b[2] + a[3] * b[1],
       a[1] * b[4] + a[2] * b[3] + a[3] * b[2] + a[4] * b[1],
       a[1] * b[5] + a[2] * b[4] + a[3] * b[3] + a[4] * b[2] + a[5] * b[1],
       a[2] * b[5] + a[3] * b[4] + a[4] * b[3] + a[5] * b[2],
       a[3] * b[5] + a[4] * b[4] + a[5] * b[3],
       a[4] * b[5] + a[5] * b[4],
       a[5] * b[5]>>

\* the product's limbs from 1e-12 up, the limbs beyond the fifth folded into it
Shift(c) == <<c[4], c[5], c[6], c[7], c[8] + Base * c[9]>>

\* a * b, truncated to 12 decimals
Mul(a, b) == Shift(Norm(Conv(a, b)))

\* an integer
FromInt(n) == Norm(<<0, 0, 0, n, 0>>)

\* a number of 1e-4 (a stored pressure, a decimal literal of at most 4 places)
FromDec4(n) == Norm(<<0, 0, n, 0, 0>>)

\* a fixed-point number cut to a number of 1e-4
Dec4(r) == r[3] + Base * (r[4] + Base * r[5])

\* round(x, 4) as a number of 1e-4: add half a unit of the 4th decimal and cut
\* (an exact tie, which Python rounds to even, does not occur in the values met)
Round4(x) == Dec4(Norm(<<x[1], x[2] + Base \div 2, x[3], x[4], x[5]>>))

\* math.log(2) = 0.693147180560
Ln2 == <<560, 4718, 6931, 0, 0>>

\* 1 / math.log(2) = 1.442695040889
InvLn2 == <<889, 9504, 4426, 1, 0>>

\* number of terms of the exponential series (the terms beyond are below 1e-12)
ExpTerms == 16

\* one more term of the series: <<x^n / n!, the sum up to it>>
ExpStep(x, n, ta) ==
    LET t == DivInt(Mul(ta[1], x), n)
    IN  <<t, IF n % 2 = 1 THEN Sub(ta[2], t) ELSE Add(ta[2], t)>>

\* the sum 1 - x + x^2/2! - ... of ExpTerms terms; each step is bound to its
\* value before the next one is taken
RECURSIVE ExpSeries(_, _, _)
ExpSeries(x, n, ta) ==
    IF n > ExpTerms
    THEN ta[2]
    ELSE CHOOSE r \in {ExpSeries(x, n + 1, p) : p \in {ExpStep(x, n, ta)}} : TRUE

\* math.e ** -x for 0 <= x <= 1
ExpNeg(x) == CHOOSE r \in {ExpSeries(y, 1, <<One, One>>) : y \in {x}} : TRUE

(***************************************************************************)
(* The parameter table.  t is the nitrogen half-time in tenths of a minute *)
(* (4.0 -> 40, 38.3 -> 383); b and the three a values are numbers of 1e-4. *)
(***************************************************************************)
ZHL16N ==
    "1" :> [t |-> 40, b |-> 5050, a |-> [A |-> 12599, B |-> 12599, C |-> 12599]] @@
    "1b" :> [t |-> 50, b |-> 5578, a |-> [A |-> 11696, B |-> 11696, C |-> 11696]] @@
    "2" :> [t |-> 80, b |-> 6514, a |-> [A |-> 10000, B |-> 10000, C |-> 10000]] @@
    "3" :> [t |-> 125, b |-> 7222, a |-> [A |-> 8618, B |-> 8618, C |-> 8618]] @@
    "4" :> [t |-> 185, b |-> 7825, a |-> [A |-> 7562, B |-> 7562, C |-> 7562]] @@
    "5" :> [t |-> 270, b |-> 8126, a |-> [A |-> 6667, B |-> 6667, C |-> 6200]] @@
    "6" :> [t |-> 383, b |-> 8434, a |-> [A |-> 5933, B |-> 5600, C |-> 5043]] @@
    "7" :> [t |-> 543, b |-> 8693, a |-> [A |-> 5282, B |-> 4947, C |-> 4410]] @@
    "8" :> [t |-> 770, b |-> 8910, a |-> [A |-> 4701, B |-> 4500, C |-> 4000]] @@
    "9" :> [t |-> 1090, b |-> 9092, a |-> [A |-> 4187, B |-> 4187, C |-> 3750]] @@
    "10" :> [t |-> 1460, b |-> 9222, a |-> [A |-> 3798, B |-> 3798, C |-> 3500]] @@
    "11" :> [t |-> 1870, b |-> 9319, a |-> [A |-> 3497, B |-> 3497, C |-> 3295]] @@
    "12" :> [t |-> 2390, b |-> 9403, a |-> [A |-> 3223, B |-> 3223, C |-> 3065]] @@
    "13" :> [t |-> 3050, b |-> 9477, a |-> [A |-> 2971, B |-> 2850, C |-> 2835]] @@
    "14" :> [t |-> 3900, b |-> 9544, a |-> [A |-> 2737, B |-> 2737, C |-> 2610]] @@
    "15" :> [t |-> 4980, b |-> 9602, a |-> [A |-> 2523, B |-> 2523, C |-> 2480]] @@
    "16" :> [t |-> 6350, b |-> 9653, a |-> [A |-> 2327, B |-> 2327, C |-> 2327]]

\* the keys of the dictionary literal written by initialise_compartments, in order
CompartmentIds == <<"1", "1b", "2", "3", "4", "5", "6", "7", "8", "9", "10", "11", "12", "13", "14", "15", "16">>

\* PP_WATERVAPOUR = 0.0567
PP_WATERVAPOUR == FromDec4(567)

\* fN = 0.79
fN == FromDec4(7900)

\* depth / 10 + 1
depth_to_atm(depth) == Add(DivInt(FromInt(depth), 10), One)

\* math.log(2) / halftime, halftime in tenths of a minute
halftime_decay(halftime) == DivInt(MulInt(Ln2, 10), halftime)

\* 1 / halftime_decay = halftime / math.log(2)
inv_halftime_decay(halftime) == DivInt(MulInt(InvLn2, halftime), 10)

Halftimes == {ZHL16N[c].t : c \in DOMAIN ZHL16N}

\* math.e ** - halftime_decay, for the half-times of the table
ExpNegDecay == [h \in Halftimes |-> ExpNeg(halftime_decay(h))]

\* 1 / halftime_decay, for the half-times of the table
InvDecay == [h \in Halftimes |-> inv_halftime_decay(h)]

(***************************************************************************)
(* calculate_inert_gas_pressure_compartment: the instantaneous-exposure    *)
(* formula.  2 ** (-t_exposure / halftime) = e ** (-halftime_decay * t).   *)
(* p_begin and the result are fixed-point numbers (the function does not   *)
(* round).                                                                 *)
(***************************************************************************)
calculate_inert_gas_pressure_compartment(p_begin, pp_gasmix, t_exposure, halftime, depth) ==
    LET p_depth  == depth_to_atm(depth)
        p_gasmix == Mul(pp_gasmix, p_depth)
    IN  Add(p_begin,
            Mul(Sub(p_gasmix, p_begin),
                Sub(One, ExpNeg(Mul(halftime_decay(halftime), t_exposure)))))

\* x1 = rate * (time - 1 / halftime_decay)
SchreinerX1(time, rate, halftime) == Mul(rate, Sub(time, InvDecay[halftime]))

\* x2 = p_ambient - p_comp - (rate / halftime_decay)
SchreinerX2(p_comp, rate, halftime, p_ambient) ==
    Sub(Sub(p_ambient, FromDec4(p_comp)), Mul(rate, InvDecay[halftime]))

\* x3 = math.e ** - halftime_decay * time: the power binds tighter than the product
SchreinerX3(time, halftime) == Mul(ExpNegDecay[halftime], time)

(***************************************************************************)
(* calculate_schreiner.  p_comp is a stored pressure (a number of 1e-4),   *)
(* time, rate and p_ambient are fixed-point numbers; the decay constant    *)
(* ln(2)/halftime is passed as the half-time it was computed from.  The    *)
(* result is round(..., 4), a number of 1e-4.                              *)
(***************************************************************************)
calculate_schreiner(p_comp, time, rate, halftime, p_ambient) ==
    Round4(Sub(Add(p_ambient, SchreinerX1(time, rate, halftime)),
               Mul(SchreinerX2(p_comp, rate, halftime, p_ambient),
                   SchreinerX3(time, halftime))))

\* InitialPN with the water vapour pressure left out of the surface pressure
InitialPN_NoWaterVapour == Round4(Mul(fN, One))

\* round(fN * (1 - PP_WATERVAPOUR), 4)
InitialPN == Round4(Mul(fN, Sub(One, PP_WATERVAPOUR)))

\* the dictionary initialise_compartments dumps, as the sequence of its items
InitialCompartments ==
    [i \in 1..Len(CompartmentIds) |->
        [id |-> CompartmentIds[i], p_N |-> InitialPN, p_He |-> 0, p_total |-> InitialPN]]

\* time = depth / descent_rate
DescentTime(depth, descent_rate) == DivInt(FromInt(depth), descent_rate)

\* p_comp_init = (depth - PP_WATERVAPOUR) * fN
PCompInit(depth) == Mul(Sub(FromInt(depth), PP_WATERVAPOUR), fN)

\* rate = descent_rate * fN
DescentRate(descent_rate) == MulInt(fN, descent_rate)

\* LoopBody with the half-time looked up under the first key of the table
\* instead of the item's own key
LoopBody_FirstHalftime(item, time, rate, p_comp_init) ==
    [item EXCEPT !.p_N =
        calculate_schreiner(item.p_N, time, rate, ZHL16N[CompartmentIds[1]].t, p_comp_init)]

\* the body of the for loop for one item: its p_N is replaced, the rest kept
LoopBody(item, time, rate, p_comp_init) ==
    [item EXCEPT !.p_N =
        calculate_schreiner(item.p_N, time, rate, ZHL16N[item.id].t, p_comp_init)]

\* the for loop over the loaded dictionary, from item i on; a key that is not
\* in ZHL16N raises KeyError and leaves the loop with the items changed so far
RECURSIVE ForLoop(_, _, _, _, _)
ForLoop(data, i, time, rate, p_comp_init) ==
    IF i > Len(data)
    THEN [err |-> "none", data |-> data]
    ELSE IF data[i].id \notin DOMAIN ZHL16N
         THEN [err |-> "KeyError", data |-> data]
         ELSE ForLoop([data EXCEPT ![i] = LoopBody(data[i], time, rate, p_comp_init)],
                      i + 1, time, rate, p_comp_init)

\* Persisted with json.dump reached whether or not the loop raised
Persisted_Always(old, run) == run.data

\* what the call leaves in compartments.json: json.dump is reached only when
\* the loop has ended without an exception
Persisted(old, run) == IF run.err = "none" THEN run.data ELSE old

\* compartments.json does not exist
NoFile == [exists |-> FALSE, items |-> <<>>]

\* compartments.json holding the dumped dictionary
Stored(items) == [exists |-> TRUE, items |-> items]

\* calls of the two operations in one behaviour
MaxSteps == 3

\* depths of a descent, in units of 10 m
MaxDepth == 2

Depths == {10 * d : d \in 0..MaxDepth}

\* descent rates in m/min: the default 30, a faster one, and none at all
Rates == {0, 30, 60}

VARIABLES
    file,   \* compartments.json: whether it exists, and the sequence of its items
    err,    \* the exception that ended the last call, "none" without one
    last,   \* the last call: its name, arguments and locals
    calls,  \* the evaluate_descent calls that returned since the last initialise
    steps,  \* number of calls made
    fn      \* one application of calculate_schreiner: arguments and result

vars == <<file, err, last, calls, steps, fn>>

NoCall == [op |-> "none"]

NoFn == [state |-> "unused"]

Init ==
    /\ file = NoFile
    /\ err = "none"
    /\ last = NoCall
    /\ calls = <<>>
    /\ steps = 0
    /\ fn = NoFn

initialise_compartments ==
    /\ steps < MaxSteps
    /\ file' = Stored(InitialCompartments)
    /\ err' = "none"
    /\ last' = [op |-> "initialise_compartments"]
    /\ calls' = <<>>
    /\ steps' = steps + 1
    /\ UNCHANGED fn

evaluate_descent(depth, descent_rate) ==
    /\ steps < MaxSteps
    /\ steps' = steps + 1
    /\ UNCHANGED fn
    /\ IF descent_rate = 0
       THEN \* depth / descent_rate
            /\ err' = "ZeroDivisionError"
            /\ last' = [op |-> "evaluate_descent", depth |-> depth,
                        descent_rate |-> descent_rate]
            /\ UNCHANGED <<file, calls>>
       ELSE LET time        == DescentTime(depth, descent_rate)
                p_comp_init == PCompInit(depth)
                rate        == DescentRate(descent_rate)
                locals      == [op |-> "evaluate_descent", depth |-> depth,
                                descent_rate |-> descent_rate, time |-> time,
                                p_comp_init |-> p_comp_init, rate |-> rate]
            IN  IF ~file.exists
                THEN \* open('compartments.json')
                     /\ err' = "FileNotFoundError"
                     /\ last' = locals
                     /\ UNCHANGED <<file, calls>>
                ELSE \E run \in {ForLoop(file.items, 1, time, rate, p_comp_init)} :
                         /\ err' = run.err
                         /\ last' = locals
                         /\ file' = Stored(Persisted(file.items, run))
                         /\ calls' = IF run.err = "none"
                                     THEN Append(calls, [depth |-> depth,
                                                         descent_rate |-> descent_rate])
                                     ELSE calls

Next ==
    \/ initialise_compartments
    \/ \E depth \in Depths, descent_rate \in Rates : evaluate_descent(depth, descent_rate)

Spec == Init /\ [][Next]_vars

(***************************************************************************)
(* The program started over a state file left by an earlier session.       *)
(***************************************************************************)

\* a file dumped earlier: the keys in the opposite order, every compartment
\* at its own pressure
EarlierStore ==
    [i \in 1..Len(CompartmentIds) |->
        [id |-> CompartmentIds[Len(CompartmentIds) + 1 - i],
         p_N |-> InitialPN + 1000 * i, p_He |-> 0, p_total |-> InitialPN + 1000 * i]]

\* a file of the table revision that names the second compartment "1.1"
LegacyStore ==
    [i \in 1..Len(CompartmentIds) |->
        [id |-> IF CompartmentIds[i] = "1b" THEN "1.1" ELSE CompartmentIds[i],
         p_N |-> InitialPN, p_He |-> 0, p_total |-> InitialPN]]

InitStore ==
    /\ file \in {Stored(EarlierStore), Stored(LegacyStore)}
    /\ err = "none"
    /\ last = NoCall
    /\ calls = <<>>
    /\ steps = 0
    /\ fn = NoFn

SpecStore == InitStore /\ [][Next]_vars

(***************************************************************************)
(* calculate_schreiner applied once to arguments of its own.               *)
(***************************************************************************)

\* times of an exposure, in thirds of a minute
MaxTime == 6

Times == {DivInt(FromInt(n), 3) : n \in 0..MaxTime}

FnArgs ==
    [state : {"called"},
     p_comp : {InitialPN, 20000},
     time : Times,
     rate : {Zero, DescentRate(30)},
     halftime : Halftimes,
     p_ambient : {FromDec4(InitialPN), FromInt(3)},
     result : {0}]

InitFn ==
    /\ file = NoFile
    /\ err = "none"
    /\ last = NoCall
    /\ calls = <<>>
    /\ steps = 0
    /\ fn \in FnArgs

ApplySchreiner ==
    /\ fn.state = "called"
    /\ fn' = [fn EXCEPT !.state = "returned",
                        !.result = calculate_schreiner(fn.p_comp, fn.time, fn.rate,
                                                       fn.halftime, fn.p_ambient)]
    /\ UNCHANGED <<file, err, last, calls, steps>>

NextFn == ApplySchreiner

SpecFn == InitFn /\ [][NextFn]_vars

(***************************************************************************)
(* Properties.                                                             *)
(***************************************************************************)

\* two stored pressures agree within rounding: at most this many 1e-4
Tolerance == 2

Abs(x) == IF x < 0 THEN -x ELSE x

Items == file.items

Returned == last.op = "evaluate_descent" /\ err = "none"

\* C1: after initialise_compartments and any evaluate_descent calls with
\* depth >= 0 and descent_rate > 0, every persisted p_N is >= 0.
C1_NonNegative ==
    file.exists => \A i \in 1..Len(Items) : Items[i].p_N >= 0

\* C2: in every persisted state each compartment's p_total is the sum of its
\* p_N and its p_He.
C2_TotalIsSum ==
    file.exists => \A i \in 1..Len(Items) : Items[i].p_total = Items[i].p_N + Items[i].p_He

\* the state initialise_compartments leaves, every p_N being pN
SurfaceEquilibrium(pN) ==
    /\ file.exists
    /\ {Items[i].id : i \in 1..Len(Items)} = DOMAIN ZHL16N
    /\ Len(Items) = Cardinality(DOMAIN ZHL16N)
    /\ \A i \in 1..Len(Items) : Items[i].p_N = pN /\ Items[i].p_He = 0

\* C3 as stated: initialise_compartments leaves every compartment at
\* p_N = 0.7423 and p_He = 0.
C3_Original ==
    last.op = "initialise_compartments" => SurfaceEquilibrium(7423)

\* C3 amended: initialise_compartments leaves every compartment of the table
\* at p_N = round(0.79 * (1 - 0.0567), 4) = 0.7452 and p_He = 0.
C3_SurfaceEquilibrium ==
    last.op = "initialise_compartments" => SurfaceEquilibrium(7452)

\* initialise_compartments has overwritten the state a descent had left
C3_Witness ==
    /\ last.op = "initialise_compartments"
    /\ steps > 1
    /\ SurfaceEquilibrium(7452)

\* the call that is being made is an evaluate_descent that reaches its loop
\* over a file holding a key that is not in ZHL16N
ReadsUnknownKey ==
    /\ steps' = steps + 1
    /\ last'.op = "evaluate_descent"
    /\ last'.descent_rate # 0
    /\ file.exists
    /\ \E i \in 1..Len(Items) : Items[i].id \notin DOMAIN ZHL16N

\* C4: evaluate_descent over a state with a compartment id that is not a key
\* of ZHL16N ends in a lookup error and leaves the state file as it was.
C4_LookupError ==
    [][ReadsUnknownKey => (err' = "KeyError" /\ file' = file)]_vars

\* the lookup has failed after the loop had already changed an item in memory
C4_Witness ==
    /\ err = "KeyError"
    /\ last.op = "evaluate_descent"
    /\ file.exists
    /\ \E i \in 2..Len(Items) : Items[i].id \notin DOMAIN ZHL16N

\* C5: a step of zero duration (depth = 0 or descent_rate = 0) fails with a
\* domain error instead of producing new pressures.
C5_DomainError ==
    (last.op = "evaluate_descent" /\ (last.depth = 0 \/ last.descent_rate = 0))
        => err # "none"

\* C6: with rate = 0 calculate_schreiner is the instantaneous model's
\* exponential approach to p_ambient, up to the rounding.
C6_ConstantDepth ==
    (fn.state = "returned" /\ fn.rate = Zero)
        => Abs(fn.result
               - Round4(calculate_inert_gas_pressure_compartment(
                            FromDec4(fn.p_comp), fn.p_ambient, fn.time, fn.halftime, 0)))
           <= Tolerance

\* one evaluate_descent call from the surface-equilibrium state
OneStep(depth, descent_rate) ==
    ForLoop(InitialCompartments, 1, DescentTime(depth, descent_rate),
            DescentRate(descent_rate), PCompInit(depth)).data

\* C7: two consecutive descents at the same rate leave every compartment,
\* within rounding, at the p_N of one descent over the sum of the two depths.
C7_Additivity ==
    (/\ file.exists
     /\ Len(calls) = 2
     /\ calls[1].descent_rate = calls[2].descent_rate
     /\ calls[1].depth > 0
     /\ calls[2].depth > 0)
        => \A i \in 1..Len(Items) :
              Abs(Items[i].p_N
                  - OneStep(calls[1].depth + calls[2].depth, calls[1].descent_rate)[i].p_N)
              <= Tolerance

\* C8: calculate_schreiner returns round(p_ambient + x1 - x2 * x3, 4) with
\* x3 = e ** (-decay_constant * time).
C8_SchreinerFormula ==
    fn.state = "returned"
        => Abs(fn.result
               - Round4(Sub(Add(fn.p_ambient, SchreinerX1(fn.time, fn.rate, fn.halftime)),
                            Mul(SchreinerX2(fn.p_comp, fn.rate, fn.halftime, fn.p_ambient),
                                ExpNeg(Mul(halftime_decay(fn.halftime), fn.time))))))
           <= Tolerance

\* C9: for a descent from the surface, the p_ambient passed to
\* calculate_schreiner is (1 atm - water vapour pressure) * fN, whatever the
\* target depth.
C9_AmbientAtStart ==
    (Returned /\ Len(calls) = 1)
        => last.p_comp_init = Mul(Sub(One, PP_WATERVAPOUR), fN)

\* the new p_N of one compartment, from its own p_N, its own key and the
\* arguments of the call
OwnStep(p_N, id, depth, descent_rate) ==
    calculate_schreiner(p_N, DescentTime(depth, descent_rate), DescentRate(descent_rate),
                        ZHL16N[id].t, PCompInit(depth))

\* C10: an evaluate_descent call that returns leaves compartment i at a p_N
\* that depends only on its previous p_N, the half-time under its own key and
\* the arguments of the call; the other compartments and the order of the
\* items play no part.
C10_Independent ==
    [][(steps' = steps + 1 /\ last'.op = "evaluate_descent" /\ err' = "none")
        => /\ Len(file'.items) = Len(Items)
           /\ \A i \in 1..Len(Items) :
                /\ file'.items[i].id = Items[i].id
                /\ file'.items[i].p_N =
                       OwnStep(Items[i].p_N, Items[i].id, last'.depth, last'.descent_rate)]_vars

\* a descent has returned over a file whose items come in another order and
\* hold different pressures
C10_Witness ==
    /\ Returned
    /\ Items[1].id # CompartmentIds[1]
    /\ \E i, j \in 1..Len(Items) : Items[i].p_N # Items[j].p_N
====
